---- MODULE Spec2Model ----
(***************************************************************************)
(* A model of python_sort.py: a directory tree is walked on a thread pool, *)
(* every file is moved to the directory of its category and renamed to its *)
(* normalized name, then the archives are unpacked, the empty directories  *)
(* removed and, on request, the category directories created.              *)
(*                                                                         *)
(* A name is a record [stem, suffix]: the stem a sequence of characters    *)
(* (one-character strings), the suffix one of a finite set of extensions.  *)
(* A path is the sequence of the names below DESTINATION (<< >> is         *)
(* DESTINATION itself).  The file system is the set of the directories     *)
(* (dirs), a map from the paths of the regular files to the identity of    *)
(* the file stored there (files) and the text of every file that is a log  *)
(* (content).  Renaming over an existing file replaces it (os.rename).     *)
(***************************************************************************)
EXTENDS Integers, Sequences, FiniteSets, TLC

\* ------------------------------------------------------------- bounds

\* The largest worker pool Init draws (ThreadPoolExecutor() takes the
\* machine's default, min(32, cpu_count + 4)).
MaxPool == 3

\* attempts = 3
MaxAttempts == 3

\* The most calls of delete_empty_folders in a row.
MaxReaps == 2

\* ------------------------------------------------------ names and paths

Name(stem, suffix) == [stem |-> stem, suffix |-> suffix]

DirName(stem) == Name(stem, "")

\* pathlib's `/`.
Join(dir, name) == Append(dir, name)

\* Path.parent and Path.name.
Parent(p) == SubSeq(p, 1, Len(p) - 1)

Base(p) == p[Len(p)]

\* DESTINATION = Path(sourse).
DESTINATION == << >>

\* An extension compared as it is written.
LowerKeepsCase(suffix) == suffix

\* str.lower() on the extensions the model uses.
Lower(suffix) ==
    CASE suffix = ".TXT" -> ".txt"
      [] suffix = ".ZIP" -> ".zip"
      [] suffix = ".PY" -> ".py"
      [] OTHER -> suffix

\* The category table, in the order of the dictionary.
directive_extension ==
    << [folder |-> <<"i","m","a","g","e","s">>,
        extensions |-> {".jpeg", ".png", ".jpg", ".svg"}],
       [folder |-> <<"d","o","c","u","m","e","n","t","s">>,
        extensions |-> {".doc", ".docx", ".txt", ".pdf", ".xlsx", ".pptx"}],
       [folder |-> <<"a","u","d","i","o">>,
        extensions |-> {".mp3", ".ogg", ".wav", ".amr"}],
       [folder |-> <<"v","i","d","e","o">>,
        extensions |-> {".avi", ".mp4", ".mov", ".mkv"}],
       [folder |-> <<"a","r","c","h","i","v","e","s">>,
        extensions |-> {".zip", ".gz", ".tar"}],
       [folder |-> <<"p","y","t","h","o","n">>,
        extensions |-> {".py"}],
       [folder |-> <<"o","t","h","e","r">>,
        extensions |-> {}] >>

Folders == {directive_extension[i].folder : i \in DOMAIN directive_extension}

\* The folder move_elements picks for an extension: the first entry of the
\* table that lists it, 'other' when the loop ends without a match.
Classify(ext) ==
    LET hits == {i \in DOMAIN directive_extension :
                    ext \in directive_extension[i].extensions}
    IN  IF hits = {}
        THEN <<"o","t","h","e","r">>
        ELSE directive_extension[CHOOSE i \in hits : \A j \in hits : i <= j].folder

\* ---------------------------------------------------------- normalize

\* A character is a one-character string when it is ASCII and "U+XXXX", its
\* code point, otherwise.

CYRILLIC_SYMBOLS ==
    << "U+0430", "U+0431", "U+0432", "U+0433", "U+0434", "U+0435", "U+0451", "U+0436",
       "U+0437", "U+0438", "U+0439", "U+043A", "U+043B", "U+043C", "U+043D", "U+043E",
       "U+043F", "U+0440", "U+0441", "U+0442", "U+0443", "U+0444", "U+0445", "U+0446",
       "U+0447", "U+0448", "U+0449", "U+044A", "U+044B", "U+044C", "U+044D", "U+044E",
       "U+044F", "U+0454", "U+0456", "U+0457", "U+0491" >>

CYRILLIC_UPPER ==
    << "U+0410", "U+0411", "U+0412", "U+0413", "U+0414", "U+0415", "U+0401", "U+0416",
       "U+0417", "U+0418", "U+0419", "U+041A", "U+041B", "U+041C", "U+041D", "U+041E",
       "U+041F", "U+0420", "U+0421", "U+0422", "U+0423", "U+0424", "U+0425", "U+0426",
       "U+0427", "U+0428", "U+0429", "U+042A", "U+042B", "U+042C", "U+042D", "U+042E",
       "U+042F", "U+0404", "U+0406", "U+0407", "U+0490" >>

TRANSLATION ==
    << <<"a">>, <<"b">>, <<"v">>, <<"g">>, <<"d">>, <<"e">>, <<"e">>, <<"j">>,
       <<"z">>, <<"i">>, <<"j">>, <<"k">>, <<"l">>, <<"m">>, <<"n">>, <<"o">>,
       <<"p">>, <<"r">>, <<"s">>, <<"t">>, <<"u">>, <<"f">>, <<"h">>,
       <<"t","s">>, <<"c","h">>, <<"s","h">>, <<"s","c","h">>, << >>, <<"y">>,
       << >>, <<"e">>, <<"y","u">>, <<"y","a">>, <<"j","e">>, <<"i">>,
       <<"j","i">>, <<"g">> >>

TRANSLATION_UPPER ==
    << <<"A">>, <<"B">>, <<"V">>, <<"G">>, <<"D">>, <<"E">>, <<"E">>, <<"J">>,
       <<"Z">>, <<"I">>, <<"J">>, <<"K">>, <<"L">>, <<"M">>, <<"N">>, <<"O">>,
       <<"P">>, <<"R">>, <<"S">>, <<"T">>, <<"U">>, <<"F">>, <<"H">>,
       <<"T","S">>, <<"C","H">>, <<"S","H">>, <<"S","C","H">>, << >>, <<"Y">>,
       << >>, <<"E">>, <<"Y","U">>, <<"Y","A">>, <<"J","E">>, <<"I">>,
       <<"J","I">>, <<"G">> >>

\* TRANS, applied to one character: the characters it maps to.
TRANS(c) ==
    IF \E i \in DOMAIN CYRILLIC_SYMBOLS : CYRILLIC_SYMBOLS[i] = c
    THEN TRANSLATION[CHOOSE i \in DOMAIN CYRILLIC_SYMBOLS : CYRILLIC_SYMBOLS[i] = c]
    ELSE IF \E i \in DOMAIN CYRILLIC_UPPER : CYRILLIC_UPPER[i] = c
    THEN TRANSLATION_UPPER[CHOOSE i \in DOMAIN CYRILLIC_UPPER : CYRILLIC_UPPER[i] = c]
    ELSE <<c>>

RECURSIVE Translate(_)
\* str.translate(TRANS).
Translate(s) ==
    IF s = << >> THEN << >> ELSE TRANS(Head(s)) \o Translate(Tail(s))

AsciiWord ==
    { "a","b","c","d","e","f","g","h","i","j","k","l","m","n","o","p","q","r",
      "s","t","u","v","w","x","y","z",
      "A","B","C","D","E","F","G","H","I","J","K","L","M","N","O","P","Q","R",
      "S","T","U","V","W","X","Y","Z",
      "0","1","2","3","4","5","6","7","8","9","_" }

\* Letters and digits outside ASCII: \w of a str pattern matches them too.
UnicodeWord ==
    { "U+00E9", "U+00DF", "U+045E", "U+0663" }
    \cup {CYRILLIC_SYMBOLS[i] : i \in DOMAIN CYRILLIC_SYMBOLS}
    \cup {CYRILLIC_UPPER[i] : i \in DOMAIN CYRILLIC_UPPER}

\* Whether the character matches \W.
NonWord(c) == c \notin AsciiWord \cup UnicodeWord

\* re.sub(r'\W', '_', s).
SubNonWord(s) == [i \in DOMAIN s |-> IF NonWord(s[i]) THEN "_" ELSE s[i]]

normalize(name) == SubNonWord(Translate(name))

\* ------------------------------------------------------------- state

VARIABLES
    dirs,          \* the paths that are directories
    files,         \* path of a regular file -> the identity of the file there
    content,       \* identity of a log file -> the records written to it
    nextId,        \* the identity the next created file gets
    tree,          \* the tree the run started on (never changes)
    max_workers,   \* the size of the executor's pool
    lock,          \* threading.Lock(): 0 when free, else the task holding it
    futures,       \* the futures submitted so far, in order of submission
    queue,         \* the executor's work queue: indices of futures, FIFO
    fr,            \* frame 0 is the main thread, frame t runs futures[t]
    shutdown,      \* the executor's _shutdown flag
    attempts,      \* the prompt's remaining attempts
    create_empty,  \* the answer, stripped and lower-cased
    handled,       \* history: <<t, id>> when task t moved or renamed file id
    created,       \* history: directory -> the times ensure_dest_exists made it
    phases         \* history: the phases entered, in order

vars == << dirs, files, content, nextId, tree, max_workers, lock, futures,
           queue, fr, shutdown, attempts, create_empty, handled, created, phases >>

\* The directories whose enumeration the system refuses.
unreadable == tree.unreadable

\* ------------------------------------------------------- file system

Exists(p) == p \in dirs \/ p \in DOMAIN files

\* A listing that goes down into the subdirectories.
ListingDeep(d) ==
    {p \in dirs \cup DOMAIN files : Len(p) > Len(d) /\ SubSeq(p, 1, Len(d)) = d}

\* The entries os.listdir gives for directory d.
Listing(d) ==
    {p \in dirs \cup DOMAIN files : Len(p) = Len(d) + 1 /\ Parent(p) = d}

\* An unlink that leaves the file.
Kept(f, p) == f

\* The map f without path p.
Without(f, p) == [q \in DOMAIN f \ {p} |-> f[q]]

\* The map f with the file at src renamed to dst, replacing what is there.
Renamed(f, src, dst) ==
    [q \in (DOMAIN f \ {src}) \cup {dst} |-> IF q = dst THEN f[src] ELSE f[q]]

\* shutil.move(src, dst) on the files f: os.rename, which replaces the file
\* at dst; into dst when dst is a directory, unless the name is taken
\* there.  err names the exception raised, "" when none.
ShutilMove(f, src, dst) ==
    LET real_dst == IF dst \in dirs THEN Join(dst, Base(src)) ELSE dst
    IN  IF src \notin DOMAIN f
        THEN [err |-> "FileNotFoundError", files |-> f]
        ELSE IF dst \in dirs /\ (real_dst \in dirs \/ real_dst \in DOMAIN f)
        THEN [err |-> "Error", files |-> f]
        ELSE IF Parent(real_dst) \in DOMAIN f
        THEN [err |-> "NotADirectoryError", files |-> f]
        ELSE IF Parent(real_dst) \notin dirs
        THEN [err |-> "FileNotFoundError", files |-> f]
        ELSE [err |-> "", files |-> Renamed(f, src, real_dst)]

\* The path and the directories above it.
Prefixes(p) == {SubSeq(p, 1, n) : n \in 0..Len(p)}

\* Path.mkdir(parents=True, exist_ok=...) on the directories d.
Mkdir(d, p, exist_ok) ==
    IF p \in d
    THEN [err |-> IF exist_ok THEN "" ELSE "FileExistsError", dirs |-> d]
    ELSE IF p \in DOMAIN files
    THEN [err |-> "FileExistsError", dirs |-> d]
    ELSE IF \E q \in Prefixes(p) : q \in DOMAIN files
    THEN [err |-> "NotADirectoryError", dirs |-> d]
    ELSE [err |-> "", dirs |-> d \cup Prefixes(p)]

\* directory / 'logs.txt'
LogPath(directory) == Join(directory, Name(<<"l","o","g","s">>, ".txt"))

\* One line of the log: the action type and the paths and the exception its
\* message names; by is the frame that wrote it (not part of the text).
Record(action_type, file, dest, cause, by) ==
    [action_type |-> action_type, file |-> file, dest |-> dest,
     cause |-> cause, by |-> by]

\* open(directory / 'logs.txt', 'a'): the file there, made when there is
\* none; fh is the identity of the file the handle is on.
Opened(directory) ==
    IF LogPath(directory) \in DOMAIN files
    THEN [fh |-> files[LogPath(directory)], files |-> files,
          content |-> content, nextId |-> nextId]
    ELSE [fh |-> nextId, files |-> files @@ (LogPath(directory) :> nextId),
          content |-> content @@ (nextId :> << >>), nextId |-> nextId + 1]

\* logs.write(line) on the handle fh, given the texts c.
Written(c, fh, record) ==
    [id \in DOMAIN c \cup {fh} |->
        IF id = fh
        THEN Append(IF fh \in DOMAIN c THEN c[fh] ELSE << >>, record)
        ELSE c[id]]

\* -------------------------------------------------------- move_elements

\* The locals of move_elements(file).
Ext(file) == Lower(Base(file).suffix)

DestDir(file) == Join(DESTINATION, DirName(Classify(Ext(file))))

DestFile(file) == Join(DestDir(file), Base(file))

\* A rename that keeps the name the file came with.
NewFileDestUnchanged(file) == DestFile(file)

NewFileDest(file) ==
    Join(DestDir(file), Name(normalize(Base(file).stem), Ext(file)))

\* ------------------------------------------------------- initial trees

d1 == DirName(<<"d","1">>)

d2 == DirName(<<"d","2">>)

dx == DirName(<<"d","x">>)

documents == DirName(<<"d","o","c","u","m","e","n","t","s">>)

archives == DirName(<<"a","r","c","h","i","v","e","s">>)

a_b_txt == Name(<<"a"," ","b">>, ".txt")

a_b_txt_u == Name(<<"a","_","b">>, ".txt")

ab_TXT == Name(<<"a","b">>, ".TXT")

ya_PY == Name(<<"U+044F">>, ".PY")

a_ZIP == Name(<<"a">>, ".ZIP")

noext == Name(<<"n">>, "")

b_tar == Name(<<"b">>, ".tar")

logs_txt == Name(<<"l","o","g","s">>, ".txt")

\* A stem of a letter and a digit outside ASCII and outside the table, a
\* hyphen, an ASCII letter and digit, and a letter of the table.
letters_txt == Name(<<"U+00E9", "U+0663", "-", "Z", "9", "U+0416">>, ".txt")

Tree(d, f, u) == [dirs |-> d, files |-> f, unreadable |-> u]

\* Three documents in DESTINATION; the stems of two normalize to the same
\* name.
TreeAlike ==
    Tree({DESTINATION},
         (<<a_b_txt>> :> 1) @@ (<<a_b_txt_u>> :> 2) @@ (<<ab_TXT>> :> 3), {})

\* The same file name in DESTINATION and in a subdirectory.
TreeSameName ==
    Tree({DESTINATION, <<d1>>}, (<<a_b_txt>> :> 1) @@ (<<d1, a_b_txt>> :> 2), {})

\* A category directory is there already, left by an earlier run.
TreeSorted ==
    Tree({DESTINATION, <<documents>>}, (<<a_b_txt>> :> 1), {})

\* A file two directories down.
TreeDeep ==
    Tree({DESTINATION, <<d1>>, <<d1, d2>>}, (<<d1, d2, ya_PY>> :> 1), {})

\* A subdirectory that cannot be enumerated beside one that can.
TreeUnreadable ==
    Tree({DESTINATION, <<dx>>, <<d1>>}, (<<d1, a_ZIP>> :> 1), {<<dx>>})

\* An archive in a subdirectory and a file without extension.
TreeArchive ==
    Tree({DESTINATION, <<d1>>}, (<<d1, a_ZIP>> :> 1) @@ (<<noext>> :> 2), {})

\* The logs.txt of an earlier run is in DESTINATION, beside a new file.
TreeLogged ==
    Tree({DESTINATION}, (<<logs_txt>> :> 1) @@ (<<letters_txt>> :> 2), {})

\* Two archives in DESTINATION.
TreeArchives ==
    Tree({DESTINATION}, (<<a_ZIP>> :> 1) @@ (<<b_tar>> :> 2), {})

Trees ==
    {TreeAlike, TreeSameName, TreeSorted, TreeDeep, TreeUnreadable, TreeArchive,
     TreeLogged, TreeArchives}

\* The two lines an earlier run (by = -1) logged for a file 'n'.
EarlierLines ==
    << Record("Move", <<noext>>, DestFile(<<noext>>), "", -1),
       Record("Rename", DestFile(<<noext>>), NewFileDest(<<noext>>), "", -1) >>

\* The text of the log files of tree t when the run starts.
EarlierLog(t) ==
    [id \in {t.files[p] : p \in {q \in DOMAIN t.files : Base(q) = logs_txt}}
        |-> EarlierLines]

\* -------------------------------------------------------------- frames

Frame(pc, todo, fh, err) == [pc |-> pc, todo |-> todo, fh |-> fh, err |-> err]

Future(fn, arg, by) == [fn |-> fn, arg |-> arg, by |-> by, state |-> "pending"]

Tasks == 1..Len(futures)

Running == {t \in Tasks : futures[t].state = "running"}

\* The futures frame f submitted.
Submitted(f) == {t \in Tasks : futures[t].by = f}

Init ==
    /\ tree \in Trees
    /\ dirs = tree.dirs
    /\ files = tree.files
    /\ nextId = Cardinality(DOMAIN tree.files) + 1
    /\ content = EarlierLog(tree)
    /\ max_workers \in 1..MaxPool
    /\ lock = 0
    /\ futures = << >>
    /\ queue = << >>
    /\ fr = (0 :> Frame("input", {}, 0, ""))
    /\ shutdown = FALSE
    /\ attempts = MaxAttempts
    /\ create_empty = << >>
    /\ handled = {}
    /\ created = << >>
    /\ phases = << >>

\* --------------------------------------------------------- the prompt

\* What the user may type.
Answers == { <<"y">>, <<" ","N">>, <<"Y"," ">>, <<"x">>, << >> }

RECURSIVE LStrip(_)
LStrip(s) == IF s /= << >> /\ Head(s) = " " THEN LStrip(Tail(s)) ELSE s

RECURSIVE RStrip(_)
RStrip(s) ==
    IF s /= << >> /\ s[Len(s)] = " " THEN RStrip(SubSeq(s, 1, Len(s) - 1)) ELSE s

\* str.strip()
Strip(s) == RStrip(LStrip(s))

\* str.lower() on the characters of the answers.
StrLower(s) ==
    [i \in DOMAIN s |-> CASE s[i] = "Y" -> "y" [] s[i] = "N" -> "n" [] OTHER -> s[i]]

\* A prompt that takes any answer.
ValidAnswerAny(a) == TRUE

\* if create_empty in ('y', 'n')
ValidAnswer(a) == a \in {<<"y">>, <<"n">>}

\* One turn of the while loop: the answer is read; a valid one starts the
\* run (the executor is made and read_folder(DESTINATION) called), an
\* invalid one costs an attempt, and with none left the loop is over.
Input(answer) ==
    LET a == StrLower(Strip(answer))
    IN  /\ fr[0].pc = "input"
        /\ attempts > 0
        /\ IF ValidAnswer(a)
           THEN /\ create_empty' = a
                /\ fr' = [fr EXCEPT ![0].pc = "iterdir"]
                /\ phases' = Append(phases, "Walk")
                /\ UNCHANGED attempts
           ELSE /\ attempts' = attempts - 1
                /\ fr' = [fr EXCEPT ![0].pc = IF attempts' = 0 THEN "exit" ELSE "input"]
                /\ UNCHANGED << create_empty, phases >>
        /\ UNCHANGED << dirs, files, content, nextId, tree, max_workers,
                        lock, futures, queue, shutdown, handled, created >>

\* ---------------------------------------------------------- read_folder

\* The frames that run read_folder: the main thread's call and the tasks.
Walkers == {0} \cup {t \in Running : futures[t].fn = "read_folder"}

PathOf(f) == IF f = 0 THEN DESTINATION ELSE futures[f].arg

\* Frame f ends with an exception: a task's future holds it; in the main
\* thread it leaves the with block, which shuts the executor down.
Raised(f, err) ==
    /\ futures' = IF f = 0 THEN futures ELSE [futures EXCEPT ![f].state = "raised"]
    /\ fr' = [fr EXCEPT ![f] = Frame(IF f = 0 THEN "shutdown" ELSE "raised", {}, 0, err)]
    /\ shutdown' = IF f = 0 THEN TRUE ELSE shutdown

\* Frame f, a task, returns; pc says where.
ReturnedAt(f, pc) ==
    /\ futures' = [futures EXCEPT ![f].state = "finished"]
    /\ fr' = [fr EXCEPT ![f] = Frame(pc, {}, 0, "")]

Returned(f) == ReturnedAt(f, "returned")

\* path.iterdir(): the entries are listed once, when the loop starts.
Iterdir(f) ==
    /\ f \in Walkers
    /\ fr[f].pc = "iterdir"
    /\ IF PathOf(f) \in unreadable \/ PathOf(f) \notin dirs
       THEN Raised(f, "PermissionError")
       ELSE /\ fr' = [fr EXCEPT ![f].todo = Listing(PathOf(f)),
                                ![f].pc = IF Listing(PathOf(f)) = {}
                                          THEN "as_completed" ELSE "submit"]
            /\ UNCHANGED << futures, shutdown >>
    /\ UNCHANGED << dirs, files, content, nextId, tree, max_workers, lock,
                    queue, attempts, create_empty, handled, created, phases >>

\* One turn of the for loop: element is asked whether it is a directory
\* now, and the matching task is submitted; submit raises once the
\* executor is shut down.
Submit(f, element) ==
    /\ f \in Walkers
    /\ fr[f].pc = "submit"
    /\ element \in fr[f].todo
    /\ IF shutdown
       THEN /\ Raised(f, "RuntimeError")
            /\ UNCHANGED queue
       ELSE /\ futures' = Append(futures,
                  Future(IF element \in dirs THEN "read_folder" ELSE "move_elements",
                         element, f))
            /\ queue' = Append(queue, Len(futures) + 1)
            /\ fr' = [fr EXCEPT ![f].todo = @ \ {element},
                                ![f].pc = IF fr[f].todo = {element}
                                          THEN "as_completed" ELSE "submit"]
                     @@ ((Len(futures) + 1) :> Frame("pending", {}, 0, ""))
            /\ UNCHANGED shutdown
    /\ UNCHANGED << dirs, files, content, nextId, tree, max_workers, lock,
                    attempts, create_empty, handled, created, phases >>

\* for future in as_completed(futures): future.result() -- a future that
\* ended with an exception is yielded as soon as it has ended, and result()
\* raises it again in the walker, whatever the other futures are doing.
AsCompletedRaise(f) ==
    /\ f \in Walkers
    /\ fr[f].pc = "as_completed"
    /\ \E t \in Submitted(f) : futures[t].state = "raised"
    /\ Raised(f, "reraised")
    /\ UNCHANGED << dirs, files, content, nextId, tree, max_workers, lock,
                    queue, attempts, create_empty, handled, created, phases >>

\* A loop that ends when every future of the walker has been started.
WalkDoneStarted(f) == \A t \in Submitted(f) : futures[t].state /= "pending"

\* The loop ends when every future of the walker has been yielded.
WalkDone(f) == \A t \in Submitted(f) : futures[t].state = "finished"

\* read_folder returns: a task's future is finished; the main thread goes
\* on to unpack_archives(DESTINATION / 'archives').
AsCompletedReturn(f) ==
    /\ f \in Walkers
    /\ fr[f].pc = "as_completed"
    /\ WalkDone(f)
    /\ IF f = 0
       THEN /\ fr' = [fr EXCEPT ![0].pc = "unpack_iterdir"]
            /\ phases' = Append(phases, "Unpack")
            /\ UNCHANGED futures
       ELSE /\ Returned(f)
            /\ UNCHANGED phases
    /\ UNCHANGED << dirs, files, content, nextId, tree, max_workers, lock,
                    queue, shutdown, attempts, create_empty, handled, created >>

\* A worker thread of the pool takes the next work item off the queue.
Start(t) ==
    /\ queue /= << >>
    /\ t = Head(queue)
    /\ Cardinality(Running) < max_workers
    /\ queue' = Tail(queue)
    /\ futures' = [futures EXCEPT ![t].state = "running"]
    /\ fr' = [fr EXCEPT ![t].pc = IF futures[t].fn = "read_folder"
                                  THEN "iterdir" ELSE "is_file"]
    /\ UNCHANGED << dirs, files, content, nextId, tree, max_workers, lock,
                    shutdown, attempts, create_empty, handled, created, phases >>

\* -------------------------------------------------------- move_elements

Movers == {t \in Running : futures[t].fn = "move_elements"}

\* if file.is_file(): ... -- otherwise the task returns at once.
IsFile(t) ==
    /\ t \in Movers
    /\ fr[t].pc = "is_file"
    /\ IF futures[t].arg \in DOMAIN files
       THEN /\ fr' = [fr EXCEPT ![t].pc = "exists"]
            /\ UNCHANGED futures
       ELSE ReturnedAt(t, "skipped")
    /\ UNCHANGED << dirs, files, content, nextId, tree, max_workers, lock,
                    queue, shutdown, attempts, create_empty, handled, created, phases >>

\* ensure_dest_exists: if not dest_dir.exists(), read without the lock.
DestExists(t) ==
    /\ t \in Movers
    /\ fr[t].pc = "exists"
    /\ fr' = [fr EXCEPT ![t].pc = IF Exists(DestDir(futures[t].arg))
                                  THEN "move" ELSE "lock"]
    /\ UNCHANGED << dirs, files, content, nextId, tree, max_workers, lock,
                    futures, queue, shutdown, attempts, create_empty, handled, created,
                    phases >>

\* with lock: the lock is taken.
Acquire(t) ==
    /\ t \in Movers
    /\ fr[t].pc = "lock"
    /\ lock = 0
    /\ lock' = t
    /\ fr' = [fr EXCEPT ![t].pc = "mkdir"]
    /\ UNCHANGED << dirs, files, content, nextId, tree, max_workers,
                    futures, queue, shutdown, attempts, create_empty, handled, created,
                    phases >>

\* The tally n with one more for path p.
Tally(n, p) ==
    [q \in DOMAIN n \cup {p} |->
        IF q = p THEN (IF p \in DOMAIN n THEN n[p] + 1 ELSE 1) ELSE n[q]]

\* ensure_dest_exists with exist_ok left out of mkdir.
EnsureMkdirStrict(d, p) == Mkdir(d, p, FALSE)

\* dest_dir.mkdir(parents=True, exist_ok=True) of ensure_dest_exists.
EnsureMkdir(d, p) == Mkdir(d, p, TRUE)

\* The directory is made and the lock released; an exception of mkdir is
\* outside the try of move_elements and ends the task.
MkdirRelease(t) ==
    LET made == EnsureMkdir(dirs, DestDir(futures[t].arg))
    IN  /\ t \in Movers
        /\ fr[t].pc = "mkdir"
        /\ dirs' = made.dirs
        /\ created' = IF made.dirs /= dirs
                      THEN Tally(created, DestDir(futures[t].arg)) ELSE created
        /\ lock' = 0
        /\ IF made.err = ""
           THEN /\ fr' = [fr EXCEPT ![t].pc = "move"]
                /\ UNCHANGED << futures, shutdown >>
           ELSE Raised(t, made.err)
        /\ UNCHANGED << files, content, nextId, tree, max_workers, queue,
                        attempts, create_empty, handled, phases >>

\* shutil.move(str(file), str(dest_file)); an exception goes to the except
\* clauses, which log it.
Move(t) ==
    LET file  == futures[t].arg
        moved == ShutilMove(files, file, DestFile(file))
    IN  /\ t \in Movers
        /\ fr[t].pc = "move"
        /\ files' = moved.files
        /\ fr' = [fr EXCEPT ![t].pc = IF moved.err = "" THEN "log_move" ELSE "log_error",
                            ![t].err = moved.err]
        /\ handled' = IF moved.err = "" THEN handled \cup {<<t, files[file]>>} ELSE handled
        /\ UNCHANGED << created, dirs, content, nextId, tree, max_workers, lock,
                        futures, queue, shutdown, attempts, create_empty, phases >>

\* shutil.move(str(dest_file), str(new_file_dest))
Rename(t) ==
    LET file  == futures[t].arg
        moved == ShutilMove(files, DestFile(file), NewFileDest(file))
    IN  /\ t \in Movers
        /\ fr[t].pc = "rename"
        /\ files' = moved.files
        /\ fr' = [fr EXCEPT ![t].pc = IF moved.err = "" THEN "log_rename" ELSE "log_error",
                            ![t].err = moved.err]
        /\ handled' = IF moved.err = ""
                      THEN handled \cup {<<t, files[DestFile(file)]>>} ELSE handled
        /\ UNCHANGED << created, dirs, content, nextId, tree, max_workers, lock,
                        futures, queue, shutdown, attempts, create_empty, phases >>

LogPcs == {"log_move", "log_rename", "log_error"}

\* A move_elements that logs Rename for its first move and Move for its
\* second.
LineOfSwapped(t, pc) ==
    LET file == futures[t].arg
    IN  CASE pc = "log_move" ->
                Record("Rename", DestFile(file), NewFileDest(file), "", t)
          [] pc = "log_rename" -> Record("Move", file, DestFile(file), "", t)
          [] OTHER -> Record("Error", file, DestFile(file), fr[t].err, t)

\* The line move_elements logs at pc.
LineOf(t, pc) ==
    LET file == futures[t].arg
    IN  CASE pc = "log_move" -> Record("Move", file, DestFile(file), "", t)
          [] pc = "log_rename" ->
                Record("Rename", DestFile(file), NewFileDest(file), "", t)
          [] OTHER -> Record("Error", file, DestFile(file), fr[t].err, t)

\* log_action, first half: with open(directory / 'logs.txt', 'a') as logs.
\* No lock is taken.
LogOpen(t) ==
    LET opened == Opened(DESTINATION)
    IN  /\ t \in Movers
        /\ fr[t].pc \in LogPcs
        /\ fr[t].fh = 0
        /\ files' = opened.files
        /\ content' = opened.content
        /\ nextId' = opened.nextId
        /\ fr' = [fr EXCEPT ![t].fh = opened.fh]
        /\ UNCHANGED << dirs, tree, max_workers, lock, futures, queue,
                        shutdown, attempts, create_empty, handled, created, phases >>

\* An except clause that falls through to the rename.
AfterLogFallsThrough(pc) ==
    IF pc \in {"log_move", "log_error"} THEN "rename" ELSE "returned"

\* Where move_elements goes on after the line logged at pc: to the rename
\* after the Move line, to its end after the Rename and the Error line.
AfterLog(pc) == IF pc = "log_move" THEN "rename" ELSE "returned"

\* log_action, second half: logs.write(...) and the file is closed.  After
\* the Move line the task goes on to rename; after the others it returns.
LogWrite(t) ==
    /\ t \in Movers
    /\ fr[t].pc \in LogPcs
    /\ fr[t].fh /= 0
    /\ content' = Written(content, fr[t].fh, LineOf(t, fr[t].pc))
    /\ IF AfterLog(fr[t].pc) = "returned"
       THEN Returned(t)
       ELSE /\ fr' = [fr EXCEPT ![t].pc = AfterLog(fr[t].pc), ![t].fh = 0]
            /\ UNCHANGED futures
    /\ UNCHANGED << dirs, files, nextId, tree, max_workers, lock, queue,
                    shutdown, attempts, create_empty, handled, created, phases >>

\* ------------------------------------------------------ unpack_archives

\* The main thread's call unpack_archives(DESTINATION / 'archives').
ArchivesDir == Join(DESTINATION, archives)

\* The main thread ends a phase with an exception: it leaves the with block.
MainRaised(err) ==
    /\ fr' = [fr EXCEPT ![0] = Frame("shutdown", {}, 0, err)]
    /\ shutdown' = TRUE

\* directory.iterdir() raises when the directory is not there.
UnpackIterdir ==
    /\ fr[0].pc = "unpack_iterdir"
    /\ IF ArchivesDir \notin dirs \/ ArchivesDir \in unreadable
       THEN /\ MainRaised("FileNotFoundError")
            /\ UNCHANGED phases
       ELSE /\ fr' = [fr EXCEPT ![0].todo = Listing(ArchivesDir),
                                ![0].pc = IF Listing(ArchivesDir) = {}
                                          THEN "reap_iterdir" ELSE "unpack"]
            /\ phases' = IF Listing(ArchivesDir) = {}
                         THEN Append(phases, "ReapEmpty") ELSE phases
            /\ UNCHANGED shutdown
    /\ UNCHANGED << dirs, files, content, nextId, tree, max_workers, lock,
                    futures, queue, attempts, create_empty, handled, created >>

\* The one member the model's archives hold.
member == Name(<<"m">>, "")

\* One turn of the loop of unpack_archives.  shutil.unpack_archive is a
\* black box that succeeds (extracted) or raises; log_action is given
\* `directory`, so the line goes to the logs.txt of the archives directory.
Unpack(name, extracted) ==
    LET into   == Join(ArchivesDir, DirName(Base(name).stem))
        opened == Opened(ArchivesDir)
        line   == IF extracted
                  THEN Record("Unpacked", name, name, "", 0)
                  ELSE Record("Error", name, name, "ReadError", 0)
    IN  /\ fr[0].pc = "unpack"
        /\ name \in fr[0].todo
        /\ IF Lower(Base(name).suffix) \in {".zip", ".gz", ".tar"}
           THEN /\ dirs' = IF extracted THEN dirs \cup {into} ELSE dirs
                /\ files' = IF extracted
                            THEN Without(opened.files, name)
                                 @@ (Join(into, member) :> opened.nextId)
                            ELSE opened.files
                /\ nextId' = IF extracted THEN opened.nextId + 1 ELSE opened.nextId
                /\ content' = Written(opened.content, opened.fh, line)
           ELSE UNCHANGED << dirs, files, nextId, content >>
        /\ fr' = [fr EXCEPT ![0].todo = @ \ {name},
                            ![0].pc = IF fr[0].todo = {name}
                                      THEN "reap_iterdir" ELSE "unpack"]
        /\ phases' = IF fr[0].todo = {name} THEN Append(phases, "ReapEmpty") ELSE phases
        /\ UNCHANGED << tree, max_workers, lock, futures, queue, shutdown,
                        attempts, create_empty, handled, created >>

\* ------------------------------------------------- delete_empty_folders

\* After the last phase of the with block: create_new_folders on 'y'.
AfterReap == IF create_empty = <<"y">> THEN "create_new_folders" ELSE "shutdown"

ReapIterdir ==
    /\ fr[0].pc = "reap_iterdir"
    /\ fr' = [fr EXCEPT ![0].todo = Listing(DESTINATION),
                        ![0].pc = IF Listing(DESTINATION) = {}
                                  THEN AfterReap ELSE "reap"]
    /\ UNCHANGED << dirs, files, content, nextId, tree, max_workers, lock,
                    futures, queue, shutdown, attempts, create_empty, handled, created,
                    phases >>

\* One turn of the loop: an empty directory is removed and the removal
\* logged in DESTINATION's log.
Reap(folder) ==
    LET opened == Opened(DESTINATION)
    IN  /\ fr[0].pc = "reap"
        /\ folder \in fr[0].todo
        /\ IF folder \in dirs /\ folder \in unreadable
           THEN /\ MainRaised("PermissionError")
                /\ UNCHANGED << dirs, files, content, nextId >>
           ELSE /\ IF folder \in dirs /\ Listing(folder) = {}
                   THEN /\ dirs' = dirs \ {folder}
                        /\ files' = opened.files
                        /\ nextId' = opened.nextId
                        /\ content' = Written(opened.content, opened.fh,
                                         Record("Delete", folder, folder, "", 0))
                   ELSE UNCHANGED << dirs, files, content, nextId >>
                /\ fr' = [fr EXCEPT ![0].todo = @ \ {folder},
                                    ![0].pc = IF fr[0].todo = {folder}
                                              THEN AfterReap ELSE "reap"]
                /\ UNCHANGED shutdown
        /\ UNCHANGED << tree, max_workers, lock, futures, queue, attempts,
                        create_empty, handled, created, phases >>

\* --------------------------------------------------- create_new_folders

RECURSIVE MkdirAll(_, _)
\* (base_path / folder).mkdir(exist_ok=True, parents=True) for the folders
\* from the i-th on, stopping at the first exception.
MkdirAll(made, i) ==
    IF i > Len(directive_extension) \/ made.err /= ""
    THEN made
    ELSE MkdirAll(Mkdir(made.dirs, Join(DESTINATION,
                            DirName(directive_extension[i].folder)), TRUE), i + 1)

CreateNewFolders ==
    LET made == MkdirAll([err |-> "", dirs |-> dirs], 1)
    IN  /\ fr[0].pc = "create_new_folders"
        /\ dirs' = made.dirs
        /\ IF made.err = ""
           THEN /\ fr' = [fr EXCEPT ![0].pc = "shutdown"]
                /\ UNCHANGED shutdown
           ELSE MainRaised(made.err)
        /\ phases' = Append(phases, "Precreate")
        /\ UNCHANGED << files, content, nextId, tree, max_workers, lock,
                        futures, queue, attempts, create_empty, handled, created >>

\* The with block is left: shutdown(wait=True) returns once the queue is
\* empty and the workers have ended; then the program is over, with the
\* exception that left the block if there was one.
Shutdown ==
    /\ fr[0].pc = "shutdown"
    /\ queue = << >>
    /\ Running = {}
    /\ shutdown' = TRUE
    /\ fr' = [fr EXCEPT ![0].pc = IF fr[0].err = "" THEN "done" ELSE "raised"]
    /\ UNCHANGED << dirs, files, content, nextId, tree, max_workers, lock,
                    futures, queue, attempts, create_empty, handled, created, phases >>

\* ---------------------------------------------------------- the program

Next ==
    \/ \E answer \in Answers : Input(answer)
    \/ \E f \in DOMAIN fr : Iterdir(f)
    \/ \E f \in DOMAIN fr : \E element \in fr[f].todo : Submit(f, element)
    \/ \E f \in DOMAIN fr : AsCompletedRaise(f)
    \/ \E f \in DOMAIN fr : AsCompletedReturn(f)
    \/ \E t \in Tasks : Start(t)
    \/ \E t \in Tasks : IsFile(t)
    \/ \E t \in Tasks : DestExists(t)
    \/ \E t \in Tasks : Acquire(t)
    \/ \E t \in Tasks : MkdirRelease(t)
    \/ \E t \in Tasks : Move(t)
    \/ \E t \in Tasks : LogOpen(t)
    \/ \E t \in Tasks : LogWrite(t)
    \/ \E t \in Tasks : Rename(t)
    \/ UnpackIterdir
    \/ \E name \in fr[0].todo : \E extracted \in BOOLEAN : Unpack(name, extracted)
    \/ ReapIterdir
    \/ \E folder \in fr[0].todo : Reap(folder)
    \/ CreateNewFolders
    \/ Shutdown

Spec == Init /\ [][Next]_vars

\* ------------------------------------------- a file removed from outside

\* The walker has listed p and the task for p has not yet called shutil.move.
Discovered(p) ==
    \/ \E f \in DOMAIN fr : fr[f].pc = "submit" /\ p \in fr[f].todo
    \/ \E t \in Tasks :
          /\ futures[t].fn = "move_elements" /\ futures[t].arg = p
          /\ fr[t].pc \in {"pending", "is_file", "exists", "lock", "mkdir", "move"}

\* Another process deletes the file at p, a file of the initial tree not yet
\* moved, between its listing by read_folder and the move of its task.
Vanish(p) ==
    /\ p \in DOMAIN tree.files
    /\ p \in DOMAIN files
    /\ files[p] = tree.files[p]
    /\ Discovered(p)
    /\ files' = Without(files, p)
    /\ UNCHANGED << dirs, content, nextId, tree, max_workers, lock, futures,
                    queue, fr, shutdown, attempts, create_empty, handled,
                    created, phases >>

NextVanish ==
    \/ Next
    \/ \E p \in DOMAIN files : Vanish(p)

\* The program beside a process that deletes files.
SpecVanish == Init /\ [][NextVanish]_vars

\* ------------------------------------------------------------ claims

\* The identities of the files the tree held at the start.
Originals == {tree.files[p] : p \in DOMAIN tree.files}

\* The places <<id, i>> of the log lines of type action_type that frame by wrote.
Lines(by, action_type) ==
    UNION { { <<id, i>> : i \in { j \in DOMAIN content[id] :
                                     /\ content[id][j].by = by
                                     /\ content[id][j].action_type = action_type } }
            : id \in DOMAIN content }

ErrorLogged ==
    \E id \in DOMAIN content : \E i \in DOMAIN content[id] :
        content[id][i].action_type = "Error"

\* A walker task that waits in as_completed for futures none of which has ended.
Blocked(t) ==
    /\ t \in Running
    /\ futures[t].fn = "read_folder"
    /\ fr[t].pc = "as_completed"
    /\ \A u \in Submitted(t) : futures[u].state \in {"pending", "running"}
    /\ \E u \in Submitted(t) : futures[u].state = "pending"

\* C1: read_folder always returns: there is no reachable state in which
\* every worker of the pool is blocked in a subtree walk, waiting for futures
\* it submitted to the same pool, while work items remain in the queue.
C1_NoWorkerStarvation ==
    ~ ( /\ queue /= << >>
        /\ Cardinality(Running) = max_workers
        /\ \A t \in Running : Blocked(t) )

\* C2: when the walk has returned and no Error line was logged, every file
\* of the initial tree is stored exactly once, directly in a category
\* directory of DESTINATION.
C2_EveryFileKeptOnce ==
    (fr[0].pc = "unpack_iterdir" /\ ~ErrorLogged) =>
        \A id \in Originals :
            /\ Cardinality({p \in DOMAIN files : files[p] = id}) = 1
            /\ \A p \in DOMAIN files :
                  files[p] = id =>
                      Len(p) = 2 /\ p[1] \in {DirName(folder) : folder \in Folders}

\* C3: every file is moved or renamed by at most one move_elements task.
C3_OneTaskPerFile ==
    \A id \in Originals : Cardinality({t \in Tasks : <<t, id>> \in handled}) <= 1

\* C4: at most one task at a time is between opening logs.txt and the end
\* of its write in log_action.
C4_LogAppendsSerialized ==
    Cardinality({t \in Tasks : fr[t].fh /= 0}) <= 1

\* The pcs of move_elements after ensure_dest_exists has returned.
AfterEnsure == {"move", "log_move", "rename", "log_rename", "log_error"}

\* C5: however the tasks interleave the unlocked exists() and the locked
\* mkdir of ensure_dest_exists, no task ends with an exception of mkdir, the
\* directory is there once ensure_dest_exists has returned, and it was made
\* once.
C5_EnsureDestExistsOnce ==
    /\ \A t \in Tasks :
          futures[t].fn = "move_elements" => futures[t].state /= "raised"
    /\ \A t \in Movers : fr[t].pc \in AfterEnsure => DestDir(futures[t].arg) \in dirs
    /\ \A p \in DOMAIN created : created[p] = 1

\* Three tasks saw the same directory missing: one has made it and the
\* next holds the lock, about to make it again, while the third waits.
C5_Witness ==
    \E t, u, v \in Movers :
        /\ fr[t].pc = "mkdir" /\ fr[u].pc = "lock" /\ fr[v].pc \in AfterEnsure
        /\ DestDir(futures[t].arg) \in dirs
        /\ DestDir(futures[u].arg) = DestDir(futures[t].arg)
        /\ DestDir(futures[v].arg) = DestDir(futures[t].arg)

\* C6: read_folder raises the exception of one of its futures only when
\* every future it submitted has ended.
C6_RaisesAfterAllEnded ==
    [][ \A f \in DOMAIN fr :
            (fr[f].pc = "as_completed" /\ fr'[f].pc \in {"raised", "shutdown"}) =>
                \A t \in Submitted(f) : futures[t].state \in {"finished", "raised"}
      ]_vars

Range(s) == {s[i] : i \in DOMAIN s}

\* The main thread is in unpack_archives, delete_empty_folders or
\* create_new_folders.
UnpackPcs == {"unpack_iterdir", "unpack"}

ReapPcs == {"reap_iterdir", "reap"}

\* C7: while the main thread unpacks, reaps or creates the folders, no task
\* is queued or running: every future has finished; and the phases come in
\* the order Walk, Unpack, ReapEmpty.
C7_PhasesDoNotOverlap ==
    /\ fr[0].pc \in UnpackPcs \cup ReapPcs \cup {"create_new_folders"} =>
          /\ queue = << >>
          /\ \A t \in Tasks : futures[t].state = "finished"
    /\ fr[0].pc \in UnpackPcs => phases = <<"Walk", "Unpack">>
    /\ fr[0].pc \in ReapPcs \cup {"create_new_folders"} =>
          phases = <<"Walk", "Unpack", "ReapEmpty">>

\* The reaper runs after a walk that went through a subdirectory.
C7_Witness ==
    /\ fr[0].pc = "reap"
    /\ \E t \in Tasks : futures[t].fn = "read_folder"
    /\ \E t \in Tasks : futures[t].fn = "move_elements" /\ futures[t].by /= 0

\* C8: once the walk has returned, the run goes through Unpack and
\* ReapEmpty: it is never left by an exception before the reaper is done.
C8_UnpackAndReapComplete ==
    (fr[0].pc \in {"shutdown", "done", "raised"} /\ "Unpack" \in Range(phases)) =>
        ("ReapEmpty" \in Range(phases) /\ fr[0].err = "")

Moves(t) == Cardinality(Lines(t, "Move"))

Renames(t) == Cardinality(Lines(t, "Rename"))

Errors(t) == Cardinality(Lines(t, "Error"))

\* C10: a move_elements task whose file passed is_file logs at most one
\* Move, one Rename and one Error line; a Rename line only after its Move
\* line and never beside an Error line; and when it has returned it has
\* logged either Move and Rename or exactly one Error line.
C10_OneOutcomeLogged ==
    \A t \in Tasks :
        futures[t].fn = "move_elements" =>
            /\ Moves(t) <= 1 /\ Renames(t) <= 1 /\ Errors(t) <= 1
            /\ Renames(t) = 1 => (Moves(t) = 1 /\ Errors(t) = 0)
            /\ \A m \in Lines(t, "Move") : \A r \in Lines(t, "Rename") :
                  m[1] = r[1] => m[2] < r[2]
            /\ fr[t].pc = "returned" => (Renames(t) = 1 \/ Errors(t) = 1)
            /\ fr[t].pc = "skipped" =>
                  (Moves(t) = 0 /\ Renames(t) = 0 /\ Errors(t) = 0)

\* A task has returned after its move succeeded and its rename failed, and
\* another after its move failed.
C10_Witness ==
    \E t \in Tasks :
        /\ fr[t].pc = "returned"
        /\ Moves(t) = 1 /\ Renames(t) = 0 /\ Errors(t) = 1

\* ------------------------------------ delete_empty_folders, called again

other == DirName(<<"o","t","h","e","r">>)

\* A sorted root: two empty directories, one that holds only an empty
\* directory, an empty and two non-empty category directories and the log.
TreeReapWide ==
    Tree({DESTINATION, <<d1>>, <<d2>>, <<dx>>, <<dx, d2>>, <<archives>>,
          <<documents>>, <<other>>},
         (<<documents, a_b_txt_u>> :> 1) @@ (<<other, noext>> :> 2)
            @@ (<<logs_txt>> :> 3), {})

\* A sorted root without a log: a chain of directories, empty at its end.
TreeReapChain ==
    Tree({DESTINATION, <<d1>>, <<d1, d2>>, <<dx>>, <<documents>>},
         (<<documents, a_b_txt_u>> :> 1), {})

ReapTrees == {TreeReapWide, TreeReapChain}

\* The calls of delete_empty_folders so far.
Reaps == Cardinality({i \in DOMAIN phases : phases[i] = "ReapEmpty"})

\* The main thread at delete_empty_folders(DESTINATION), the walk and the
\* unpacker behind it.
InitReap ==
    /\ tree \in ReapTrees
    /\ dirs = tree.dirs
    /\ files = tree.files
    /\ nextId = Cardinality(DOMAIN tree.files) + 1
    /\ content = EarlierLog(tree)
    /\ max_workers = 1
    /\ lock = 0
    /\ futures = << >>
    /\ queue = << >>
    /\ fr = (0 :> Frame("reap_iterdir", {}, 0, ""))
    /\ shutdown = FALSE
    /\ attempts = MaxAttempts
    /\ create_empty \in {<<"y">>, <<"n">>}
    /\ handled = {}
    /\ created = << >>
    /\ phases = <<"Walk", "Unpack", "ReapEmpty">>

\* delete_empty_folders(DESTINATION) is called once more when it has
\* returned.
ReapAgain ==
    /\ fr[0].pc = AfterReap
    /\ Reaps < MaxReaps
    /\ fr' = [fr EXCEPT ![0].pc = "reap_iterdir"]
    /\ phases' = Append(phases, "ReapEmpty")
    /\ UNCHANGED << dirs, files, content, nextId, tree, max_workers, lock,
                    futures, queue, shutdown, attempts, create_empty, handled,
                    created >>

NextReap ==
    \/ ReapIterdir
    \/ \E folder \in fr[0].todo : Reap(folder)
    \/ ReapAgain

\* delete_empty_folders on its own, called MaxReaps times in a row.
SpecReap == InitReap /\ [][NextReap]_vars

\* The file the tree held at p is gone and no task moved it: it was deleted
\* from outside.
Vanished(p) ==
    /\ p \in DOMAIN tree.files
    /\ tree.files[p] \notin Range(files)
    /\ \A t \in Tasks : <<t, tree.files[p]>> \notin handled

\* The Error lines task t logged that name the file at p.
ErrorsOn(t, p) == {l \in Lines(t, "Error") : content[l[1]][l[2]].file = p}

\* C11: when a file was deleted from outside between its listing and the
\* move of its task, the task ends without an exception and has logged
\* exactly one Error line that names the file's path.
C11_VanishedFileLogged ==
    \A t \in Tasks :
        ( /\ futures[t].fn = "move_elements"
          /\ futures[t].state \in {"finished", "raised"}
          /\ Vanished(futures[t].arg) ) =>
            /\ futures[t].state = "finished"
            /\ Cardinality(ErrorsOn(t, futures[t].arg)) = 1

\* The log files that hold a line written in this run.
LogsOfRun ==
    {p \in DOMAIN files :
        /\ files[p] \in DOMAIN content
        /\ \E i \in DOMAIN content[files[p]] : content[files[p]][i].by >= 0}

\* C12: every line of the run, whoever logs it, is in the logs.txt directly
\* in DESTINATION: no other file holds a line of the run.
C12_OneLogInRoot == \A p \in LogsOfRun : p = LogPath(DESTINATION)

\* C13: the lines of an earlier run stay where they were: the logs.txt the
\* run found in DESTINATION is still the file at that path, and its text
\* still begins with every line it had, in order.
C13_LogRecordsStay ==
    \A p \in DOMAIN tree.files :
        p = LogPath(DESTINATION) =>
            /\ p \in DOMAIN files
            /\ files[p] = tree.files[p]
            /\ Len(content[files[p]]) >= Len(EarlierLines)
            /\ SubSeq(content[files[p]], 1, Len(EarlierLines)) = EarlierLines

\* Task t's second shutil.move succeeds in this step.
RenameSucceeds(t) ==
    /\ futures[t].fn = "move_elements"
    /\ fr[t].pc = "rename"
    /\ fr'[t].pc = "log_rename"

\* After the step the file task t moved is stored under name, directly in
\* the directory of category folder, and nowhere else.
StoredAs(t, folder, name) ==
    \E id \in Originals :
        /\ <<t, id>> \in handled'
        /\ {q \in DOMAIN files' : files'[q] = id} = {<<DirName(folder), name>>}

\* C14 as stated: after a successful relocate of a file with stem S and
\* extension E its name is normalize(S) followed by E as it was written.
C14_ExtensionCasePreserved ==
    [][ \A t \in Tasks :
            RenameSucceeds(t) =>
                LET S == Base(futures[t].arg).stem
                    E == Base(futures[t].arg).suffix
                IN  StoredAs(t, Classify(Lower(E)), Name(normalize(S), E))
      ]_vars

\* C14 as amended: after a successful relocate of a file with stem S and
\* extension E its name is normalize(S) followed by E in lower case, and the
\* file is directly in the directory of its category.
C14_ExtensionLowercased ==
    [][ \A t \in Tasks :
            RenameSucceeds(t) =>
                LET S == Base(futures[t].arg).stem
                    E == Base(futures[t].arg).suffix
                IN  StoredAs(t, Classify(Lower(E)), Name(normalize(S), Lower(E)))
      ]_vars

\* The file d1/d2/<U+044F>.PY has been renamed to python/ya.py.
C14_Witness ==
    \E t \in Tasks :
        /\ futures[t].fn = "move_elements"
        /\ Base(futures[t].arg) = ya_PY
        /\ fr[t].pc = "log_rename"
        /\ <<DirName(<<"p","y","t","h","o","n">>), Name(<<"y","a">>, ".py")>>
               \in DOMAIN files

\* Task t's first shutil.move succeeds in this step.
MoveSucceeds(t) ==
    /\ futures[t].fn = "move_elements"
    /\ fr[t].pc = "move"
    /\ fr'[t].pc = "log_move"

\* The category the documentation of the program gives for the extensions
\* of the model's files, whatever their case.
ExpectedFolder(E) ==
    CASE E \in {".txt", ".TXT"} -> <<"d","o","c","u","m","e","n","t","s">>
      [] E \in {".zip", ".ZIP", ".tar"} -> <<"a","r","c","h","i","v","e","s">>
      [] E \in {".py", ".PY"} -> <<"p","y","t","h","o","n">>
      [] OTHER -> <<"o","t","h","e","r">>

\* C15: the loop of move_elements picks, for every extension of the table,
\* the first category that lists it, and 'other' for an extension no
\* category lists and for the empty one; and a file that is moved is then
\* stored in the directory of the category of its extension, compared
\* without regard to case, and in no other.
C15_PlacedInCategory ==
    [][ /\ \A i \in DOMAIN directive_extension :
              \A e \in directive_extension[i].extensions :
                  /\ Classify(e) = directive_extension[i].folder
                  /\ \A j \in 1..(i - 1) : e \notin directive_extension[j].extensions
        /\ Classify("") = <<"o","t","h","e","r">>
        /\ Classify(".xyz") = <<"o","t","h","e","r">>
        /\ \A t \in Tasks :
              MoveSucceeds(t) =>
                  StoredAs(t, ExpectedFolder(Base(futures[t].arg).suffix),
                           Base(futures[t].arg))
      ]_vars

\* The archive with the upper-case extension is in archives/ and the file
\* without extension in other/.
C15_Witness ==
    /\ <<archives, a_ZIP>> \in DOMAIN files
    /\ <<DirName(<<"o","t","h","e","r">>), noext>> \in DOMAIN files

\* The lines of type action_type about file name among the texts c.
LinesAbout(c, action_type, name) ==
    UNION { { <<id, i>> : i \in { j \in DOMAIN c[id] :
                                     /\ c[id][j].action_type = action_type
                                     /\ c[id][j].file = name } }
            : id \in DOMAIN c }

\* The step is the turn of unpack_archives for the entry name.
UnpackTurn(name) ==
    /\ fr[0].pc = "unpack"
    /\ name \in fr[0].todo
    /\ name \notin fr'[0].todo

\* The turn for name unpacked it: its directory holds the contents, one
\* Unpacked line and no Error line was added, the archive is gone.
UnpackedOk(name) ==
    LET into == Join(Parent(name), DirName(Base(name).stem))
    IN  /\ into \in dirs'
        /\ \E q \in DOMAIN files' : Len(q) = Len(into) + 1 /\ Parent(q) = into
        /\ name \notin DOMAIN files'
        /\ Cardinality(LinesAbout(content', "Unpacked", name))
              = Cardinality(LinesAbout(content, "Unpacked", name)) + 1
        /\ LinesAbout(content', "Error", name) = LinesAbout(content, "Error", name)

\* The turn for name failed: one Error line and no Unpacked line was added,
\* the archive and the directories are as they were.
UnpackFailed(name) ==
    /\ name \in DOMAIN files' /\ files'[name] = files[name]
    /\ dirs' = dirs
    /\ Cardinality(LinesAbout(content', "Error", name))
          = Cardinality(LinesAbout(content, "Error", name)) + 1
    /\ LinesAbout(content', "Unpacked", name) = LinesAbout(content, "Unpacked", name)

\* C16: every turn of unpack_archives for an entry with an archive
\* extension ends in exactly one of the two outcomes, unpacked or failed,
\* and the loop goes on to the next entry (or the phase ends) either way.
C16_UnpackOutcome ==
    [][ \A name \in DOMAIN files :
            ( /\ UnpackTurn(name)
              /\ Lower(Base(name).suffix) \in {".zip", ".gz", ".tar"} ) =>
                /\ UnpackedOk(name) /= UnpackFailed(name)
                /\ fr'[0].err = ""
                /\ fr'[0].pc = IF fr'[0].todo = {} THEN "reap_iterdir" ELSE "unpack"
      ]_vars

\* The unpacker is done: one archive failed and another, taken after it,
\* was unpacked.
C16_Witness ==
    /\ fr[0].pc \in ReapPcs
    /\ \E id \in DOMAIN content : \E i, j \in DOMAIN content[id] :
          /\ i < j
          /\ content[id][i].action_type = "Error" /\ content[id][i].by = 0
          /\ content[id][j].action_type = "Unpacked" /\ content[id][j].by = 0
          /\ content[id][i].file /= content[id][j].file
          /\ content[id][i].file \in DOMAIN files
          /\ content[id][j].file \notin DOMAIN files

\* C17: a call of delete_empty_folders that follows another one directly
\* removes no directory and logs nothing.
C17_SecondReapIsNoOp ==
    [][ (Reaps >= 2 /\ fr[0].pc \in ReapPcs) =>
            (dirs' = dirs /\ files' = files /\ content' = content)
      ]_vars

\* The second call has returned; the first removed directories, and the
\* directory that holds only an empty directory is still there.
C17_Witness ==
    /\ Reaps = 2
    /\ fr[0].pc = AfterReap
    /\ Lines(0, "Delete") /= {}
    /\ <<dx, d2>> \in dirs

\* C18: the name normalize gives for the stem of a file that is renamed
\* has only characters of [A-Za-z0-9_].
C18_NormalizeAsciiOnly ==
    \A t \in Tasks :
        (futures[t].fn = "move_elements" /\ fr[t].pc = "log_rename") =>
            Range(normalize(Base(futures[t].arg).stem)) \subseteq AsciiWord

\* The prompts issued so far: one for every invalid answer and one for the
\* valid one.
Prompts == (MaxAttempts - attempts) + (IF create_empty = << >> THEN 0 ELSE 1)

\* The program is over.
Over == fr[0].pc \in {"exit", "done", "raised"}

\* What C19 says of a state.
PromptThenPrecreate ==
    /\ Prompts <= 3
    /\ attempts \in 0..3
    /\ create_empty \in {<< >>, <<"y">>, <<"n">>}
    /\ fr[0].pc = "input" <=> (create_empty = << >> /\ attempts > 0)
    /\ fr[0].pc = "exit" <=> (create_empty = << >> /\ attempts = 0)
    /\ Over => ("Precreate" \in Range(phases) <=> create_empty = <<"y">>)

\* C19: the prompt is issued at most 3 times and no more after the first
\* 'y' or 'n'; the attempts counter never grows and never goes below 0; a
\* run that is over has gone through Precreate if and only if the answer
\* was 'y', and not after three invalid answers.
C19_PromptThenPrecreate ==
    [][ PromptThenPrecreate' /\ attempts' <= attempts /\ Prompts' >= Prompts ]_vars

\* C20: a step that appends a Rename line of a task finds a Move line of
\* the same task for the same file already in the log, before it when both
\* are in the same log file; and no Move line of a task is appended after
\* its Rename line.
C20_MoveBeforeRename ==
    [][ \A t \in Tasks :
            /\ \A r \in Lines(t, "Rename")' \ Lines(t, "Rename") :
                  \E m \in Lines(t, "Move") :
                      /\ content[m[1]][m[2]].dest = content'[r[1]][r[2]].file
                      /\ m[1] = r[1] => m[2] < r[2]
            /\ Lines(t, "Move")' /= Lines(t, "Move") => Lines(t, "Rename") = {}
      ]_vars

\* A task's Move and Rename lines are in the log with a line of another
\* task between them.
C20_Witness ==
    \E id \in DOMAIN content : \E i, j, k \in DOMAIN content[id] :
        /\ i < j /\ j < k
        /\ content[id][i].action_type = "Move"
        /\ content[id][k].action_type = "Rename"
        /\ content[id][i].by = content[id][k].by
        /\ content[id][i].by >= 1
        /\ content[id][j].by >= 1
        /\ content[id][j].by /= content[id][i].by

====
